---- MODULE Spec2Model ----
(***************************************************************************)
(* Model of lib/SqsHeavyLifter.js: the size accounting helpers, the        *)
(* constructor and sendMessage with its two send paths, run by several     *)
(* concurrent callers against an S3 and an SQS collaborator whose          *)
(* requests settle (succeed or fail) at any later time.                    *)
(*                                                                         *)
(* JavaScript values are records [t, n, s, f]: t is the kind of value, n   *)
(* a number (the value of a number, the length of a Buffer or typed array, *)
(* the size of a Blob, 1/0 for a boolean), s the code points of a string   *)
(* and f the own properties of a plain object, in insertion order.         *)
(***************************************************************************)
EXTENDS Integers, Sequences, FiniteSets, TLC

VARIABLES
    ctorOptions,   \* the options the constructor was called with
    lifter,        \* the SqsHeavyLifter instance (or the constructor's error)
    pc,            \* per call: where the call is
    argMessage,    \* per call: sendMessage's first argument
    argAttrs,      \* per call: sendMessage's second argument
    route,         \* per call: "none", "direct" (_sendToSQS) or "s3" (_sendThroughS3)
    objectKey,     \* per call: the uuid drawn by _sendThroughS3
    s3Requests,    \* per call: the putObject requests made on the S3 client
    s3Status,      \* per call: "none", "pending", "ok" or "failed"
    sqsRequests,   \* per call: the sendMessage requests made on the SQS client
    sqsStatus,     \* per call: "none", "pending", "ok" or "failed"
    result,        \* per call: what the call threw, or its promise settled with
    s3Store,       \* the objects the S3 collaborator holds
    uuidCount,     \* how many uuids were drawn
    sizeArgs,      \* the arguments of a lone getTotalMessageSize evaluation
    sizeOut        \* and its result

vars == <<ctorOptions, lifter, pc, argMessage, argAttrs, route, objectKey,
          s3Requests, s3Status, sqsRequests, sqsStatus, result, s3Store,
          uuidCount, sizeArgs, sizeOut>>

\* The number of concurrent sendMessage calls.
MaxCalls == 2

Calls == 1..MaxCalls

MAX_MESSAGE_SIZE == 262144

MAX_MESSAGE_ATTRIBUTES == 10

(***************************************************************************)
(* JavaScript values.                                                      *)
(***************************************************************************)
Val(t, n, s, f) == [t |-> t, n |-> n, s |-> s, f |-> f]

Undefined == Val("undefined", 0, <<>>, <<>>)

Null == Val("null", 0, <<>>, <<>>)

NaN == Val("NaN", 0, <<>>, <<>>)

Num(n) == Val("number", n, <<>>, <<>>)

Str(s) == Val("string", 0, s, <<>>)

Bool(b) == Val("boolean", IF b THEN 1 ELSE 0, <<>>, <<>>)

\* A plain object: f is a sequence of [k |-> property name, val |-> value].
Obj(f) == Val("object", 0, <<>>, f)

\* A Node Buffer of n bytes, a Uint16Array of n elements, a Blob of n bytes.
Buffer(n) == Val("Buffer", n, <<>>, <<>>)

Uint16Array(n) == Val("Uint16Array", n, <<>>, <<>>)

Blob(n) == Val("Blob", n, <<>>, <<>>)

Prop(k, val) == [k |-> k, val |-> val]

\* !!value
Truthy(v) ==
    CASE v.t \in {"undefined", "null", "NaN"} -> FALSE
      [] v.t = "number" -> v.n # 0
      [] v.t = "boolean" -> v.n = 1
      [] v.t = "string" -> Len(v.s) > 0
      [] OTHER -> TRUE

\* typeof value
TypeOf(v) ==
    CASE v.t = "undefined" -> "undefined"
      [] v.t \in {"number", "NaN"} -> "number"
      [] v.t = "boolean" -> "boolean"
      [] v.t = "string" -> "string"
      [] OTHER -> "object"

\* a || b
JsOr(a, b) == IF Truthy(a) THEN a ELSE b

\* a + b on numbers and undefined: anything but two numbers gives NaN
JsAdd(a, b) ==
    IF a.t = "number" /\ b.t = "number" THEN Num(a.n + b.n) ELSE NaN

\* a > b: false as soon as one side is NaN
JsGt(a, b) == a.t = "number" /\ b.t = "number" /\ a.n > b.n

\* a <= b
JsLe(a, b) == a.t = "number" /\ b.t = "number" /\ a.n <= b.n

\* obj[k] of a plain object: undefined when obj has no own property k
Get(obj, k) ==
    LET hits == {i \in 1..Len(obj.f) : obj.f[i].k = k}
    IN  IF hits = {} THEN Undefined ELSE obj.f[CHOOSE i \in hits : TRUE].val

\* Object.keys(obj) of a plain object
ObjectKeys(obj) == [i \in 1..Len(obj.f) |-> obj.f[i].k]

\* value.byteLength, value.length, value.size of a binary value
BinaryProp(value, name) ==
    CASE value.t = "Buffer" /\ name \in {"byteLength", "length"} -> Num(value.n)
      [] value.t = "Uint16Array" /\ name = "byteLength" -> Num(2 * value.n)
      [] value.t = "Uint16Array" /\ name = "length" -> Num(value.n)
      [] value.t = "Blob" /\ name = "size" -> Num(value.n)
      [] OTHER -> Undefined

(***************************************************************************)
(* Strings are sequences of code points.                                   *)
(***************************************************************************)
\* The bytes UTF-8 needs for one code point.
Utf8Len(cp) ==
    IF cp < 128 THEN 1 ELSE IF cp < 2048 THEN 2 ELSE IF cp < 65536 THEN 3 ELSE 4

RECURSIVE SumUtf8(_)
SumUtf8(s) == IF s = <<>> THEN 0 ELSE Utf8Len(Head(s)) + SumUtf8(Tail(s))

\* Buffer.byteLength(str, 'utf8')
BufferByteLength(str) == SumUtf8(str.s)

\* Property names the code reads or writes, as code points.
K_DataType == <<68, 97, 116, 97, 84, 121, 112, 101>>

K_StringValue == <<83, 116, 114, 105, 110, 103, 86, 97, 108, 117, 101>>

K_BinaryValue == <<66, 105, 110, 97, 114, 121, 86, 97, 108, 117, 101>>

K_s3BucketName == <<115, 51, 66, 117, 99, 107, 101, 116, 78, 97, 109, 101>>

K_s3Key == <<115, 51, 75, 101, 121>>

RECURSIVE JsonText(_)
RECURSIVE JsonProps(_, _)
\* The text JSON.stringify gives for a value that has one (strings hold no
\* character that JSON escapes; numbers are single digits).
JsonText(v) ==
    CASE v.t = "string" -> <<34>> \o v.s \o <<34>>
      [] v.t = "number" -> <<48 + v.n>>
      [] v.t = "boolean" ->
            IF v.n = 1 THEN <<116, 114, 117, 101>> ELSE <<102, 97, 108, 115, 101>>
      [] v.t \in {"null", "NaN"} -> <<110, 117, 108, 108>>
      [] v.t = "object" -> <<123>> \o JsonProps(v.f, TRUE) \o <<125>>
      [] OTHER -> <<>>

\* The properties of an object, comma separated; one whose value is undefined
\* is left out.
JsonProps(f, first) ==
    IF f = <<>> THEN <<>>
    ELSE IF Head(f).val.t = "undefined" THEN JsonProps(Tail(f), first)
    ELSE (IF first THEN <<>> ELSE <<44>>)
         \o <<34>> \o Head(f).k \o <<34, 58>> \o JsonText(Head(f).val)
         \o JsonProps(Tail(f), FALSE)

\* JSON.stringify(value): a string, or undefined for undefined
JSONstringify(v) == IF v.t = "undefined" THEN Undefined ELSE Str(JsonText(v))

(***************************************************************************)
(* The size accounting helpers.                                            *)
(***************************************************************************)
getStringSizeInBytes(value) == BufferByteLength(JsOr(value, Str(<<>>)))

getBinarySizeInBytes(value) ==
    IF ~Truthy(value) THEN Num(0)
    ELSE IF TypeOf(value) = "string" THEN Num(getStringSizeInBytes(value))
    ELSE JsOr(JsOr(BinaryProp(value, "byteLength"), BinaryProp(value, "length")),
              BinaryProp(value, "size"))

\* What a throw of TypeError stands for where a number was expected.
TypeErrorThrown == Val("TypeError", 0, <<>>, <<>>)

RECURSIVE AttributesReduce(_, _)
\* The reduce of getMessageAttributesSize over the properties left.
AttributesReduce(f, acc) ==
    IF f = <<>> THEN acc
    ELSE LET attrName == Head(f).k
             attr == Head(f).val
         IN  AttributesReduce(Tail(f),
                JsAdd(JsAdd(JsAdd(JsAdd(acc, Num(getStringSizeInBytes(Str(attrName)))),
                                  Num(getStringSizeInBytes(Get(attr, K_DataType)))),
                            Num(getStringSizeInBytes(Get(attr, K_StringValue)))),
                      getBinarySizeInBytes(Get(attr, K_BinaryValue))))

\* Object.keys throws a TypeError on undefined and null.
getMessageAttributesSize(messageAttributes) ==
    IF messageAttributes.t \in {"undefined", "null"} THEN TypeErrorThrown
    ELSE AttributesReduce(messageAttributes.f, Num(0))

getMessageSize(message) == getStringSizeInBytes(JSONstringify(message))

getTotalMessageSize(message, messageAttributes) ==
    LET attrs == getMessageAttributesSize(messageAttributes)
    IN  IF attrs = TypeErrorThrown THEN TypeErrorThrown
        ELSE JsAdd(Num(getMessageSize(message)), attrs)

(***************************************************************************)
(* The inputs explored.                                                    *)
(***************************************************************************)
\* "q", "b", "x", "a", "aaaaaa", one 2-byte and one 3-byte character
S_q == <<113>>

S_b == <<98>>

S_x == <<120>>

S_a == <<97>>

S_aaaaaa == <<97, 97, 97, 97, 97, 97>>

S_eacute == <<233>>

S_euro == <<8364>>

S_String == <<83, 116, 114, 105, 110, 103>>

S_Binary == <<66, 105, 110, 97, 114, 121>>

\* The options objects the constructor is called with; an absent option is
\* undefined, and so is every option of an absent options argument.
OptionSets ==
    [queueUrl : {Undefined, Str(S_q)},
     bucketName : {Undefined, Str(S_b), Num(5)},
     maxMessageSize : {Undefined, Num(0), Num(0 - 1), Str(S_x), Num(7)},
     alwaysS3 : {Undefined, Bool(TRUE)}]

\* { x: 1 }
Body_x1 == Obj(<<Prop(S_x, Num(1))>>)

Messages ==
    {Undefined, Null, Num(0), NaN, Str(<<>>), Bool(FALSE),
     Body_x1, Str(S_aaaaaa), Str(S_euro)}

\* One message attribute.
Attr(dataType, stringValue, binaryValue) ==
    Obj(<<Prop(K_DataType, Str(dataType)), Prop(K_StringValue, stringValue),
          Prop(K_BinaryValue, binaryValue)>>)

\* The attribute names a0, a1, ..., a9, a10, ...
AttrName(i) == IF i < 10 THEN <<97, 48 + i>> ELSE <<97, 48 + (i \div 10), 48 + (i % 10)>>

\* n attributes { a0: {DataType: 'String', StringValue: 'a'}, a1: ... }
UniformAttrs(n) ==
    Obj([i \in 1..n |-> Prop(AttrName(i - 1), Attr(S_String, Str(S_a), Undefined))])

AttributeSets ==
    {Undefined,
     Null,
     Obj(<<>>),
     Obj(<<Prop(S_a, Attr(S_String, Str(S_a), Undefined))>>),
     Obj(<<Prop(S_b, Attr(S_Binary, Undefined, Buffer(0)))>>),
     UniformAttrs(MAX_MESSAGE_ATTRIBUTES),
     UniformAttrs(MAX_MESSAGE_ATTRIBUTES + 1)}

\* The arguments concurrent calls are made with.
ConcurrentMessages == {Undefined, Body_x1, Str(S_aaaaaa)}

ConcurrentAttributeSets ==
    {Undefined,
     Obj(<<>>),
     Obj(<<Prop(S_a, Attr(S_String, Str(S_a), Undefined))>>)}

\* The binary values, text values and bodies a lone size evaluation is given.
BinaryValues ==
    {Undefined, Null, Str(<<>>), Str(S_eacute), Buffer(0), Buffer(2),
     Uint16Array(0), Uint16Array(2), Blob(0), Blob(3)}

StringValues == {Undefined, Str(S_a), Str(S_euro)}

SizeBodies == {Body_x1, Str(S_euro), Str(S_aaaaaa)}

SizeAttributeSets ==
    {Undefined, Obj(<<>>)}
    \cup {Obj(<<Prop(S_eacute, Attr(S_Binary, sv, bv))>>) :
             sv \in StringValues, bv \in BinaryValues}
    \cup {Obj(<<Prop(S_a, Attr(S_String, Str(S_a), Undefined)),
                Prop(S_b, Attr(S_Binary, Undefined, bv))>>) : bv \in BinaryValues}

(***************************************************************************)
(* The constructor.                                                        *)
(***************************************************************************)
NotConstructed ==
    [constructed |-> FALSE, error |-> "", queueUrl |-> Undefined,
     bucketName |-> Undefined, alwaysS3 |-> Undefined, maxMessageSize |-> Undefined]

CtorThrows(msg) == [NotConstructed EXCEPT !.error = msg]

NoOptions ==
    [queueUrl |-> Undefined, bucketName |-> Undefined,
     maxMessageSize |-> Undefined, alwaysS3 |-> Undefined]

\* The guard of the maxMessageSize check.
MaxMessageSizeInvalid(maxMessageSize) ==
    /\ Truthy(maxMessageSize)
    /\ (TypeOf(maxMessageSize) # "number" \/ JsLe(maxMessageSize, Num(0)))

\* new SqsHeavyLifter(options): the instance, or the error thrown.
Constructor(options) ==
    IF ~Truthy(options.queueUrl) THEN CtorThrows("queueUrl is required")
    ELSE IF Truthy(options.bucketName) /\ TypeOf(options.bucketName) # "string"
    THEN CtorThrows("bucketName must be a string")
    ELSE IF MaxMessageSizeInvalid(options.maxMessageSize)
    THEN CtorThrows("maxMessageSize must be a positive number")
    ELSE [constructed |-> TRUE, error |-> "",
          queueUrl |-> options.queueUrl,
          bucketName |-> options.bucketName,
          alwaysS3 |-> options.alwaysS3,
          maxMessageSize |-> JsOr(options.maxMessageSize, Num(MAX_MESSAGE_SIZE))]

Construct(options) ==
    /\ ~lifter.constructed /\ lifter.error = ""
    /\ ctorOptions' = options
    /\ lifter' = Constructor(options)
    /\ UNCHANGED <<pc, argMessage, argAttrs, route, objectKey, s3Requests,
                   s3Status, sqsRequests, sqsStatus, result, s3Store, uuidCount,
                   sizeArgs, sizeOut>>

(***************************************************************************)
(* sendMessage and the two send paths.                                     *)
(***************************************************************************)
\* uuid.v4(): the n-th draw gives a string no other draw gives.
Uuid(n) == Str(<<107, 48 + n>>)

\* A throw out of sendMessage before any request is made.
Throw(c, err) ==
    /\ pc' = [pc EXCEPT ![c] = "thrown"]
    /\ result' = [result EXCEPT ![c] = err]
    /\ UNCHANGED <<route, objectKey, s3Requests, s3Status, sqsRequests,
                   sqsStatus, s3Store, uuidCount>>

\* The request _sendToSQS makes.
SqsParams(message, messageAttributes) ==
    [QueueUrl |-> lifter.queueUrl,
     MessageBody |-> JSONstringify(message),
     MessageAttributes |-> messageAttributes]

\* _sendToSQS: one sendMessage request on the SQS client, now in flight.
sendToSQS(c, message, messageAttributes) ==
    /\ sqsRequests' = [sqsRequests EXCEPT
                          ![c] = Append(@, SqsParams(message, messageAttributes))]
    /\ sqsStatus' = [sqsStatus EXCEPT ![c] = "pending"]
    /\ pc' = [pc EXCEPT ![c] = "awaitSQS"]

\* The request _sendThroughS3 makes.
S3Params(key, message) ==
    [Op |-> "putObject", Bucket |-> lifter.bucketName, Key |-> key,
     Body |-> JSONstringify(message)]

\* _sendThroughS3 up to its return: a fresh key and one putObject request on
\* the S3 client, now in flight. What putObject returns is taken to be a
\* promise, as the code takes it (it calls then on it).
sendThroughS3(c, message) ==
    /\ uuidCount' = uuidCount + 1
    /\ objectKey' = [objectKey EXCEPT ![c] = Uuid(uuidCount + 1)]
    /\ s3Requests' = [s3Requests EXCEPT
                         ![c] = Append(@, S3Params(Uuid(uuidCount + 1), message))]
    /\ s3Status' = [s3Status EXCEPT ![c] = "pending"]
    /\ pc' = [pc EXCEPT ![c] = "awaitS3"]
    /\ route' = [route EXCEPT ![c] = "s3"]
    /\ UNCHANGED <<sqsRequests, sqsStatus, result, s3Store>>

\* The direct send out of sendMessage.
sendDirect(c, message, messageAttributes) ==
    /\ sendToSQS(c, message, messageAttributes)
    /\ route' = [route EXCEPT ![c] = "direct"]
    /\ UNCHANGED <<objectKey, s3Requests, s3Status, result, s3Store, uuidCount>>

\* A check for undefined and null alone (message == null) in place of !message.
MessageMissing_NullOnly(message) == message.t \in {"undefined", "null"}

\* The guard of the first throw.
MessageMissing(message) == ~Truthy(message)

\* The count compared with >= in place of >.
TooManyAttributes_OffByOne(messageAttributes) ==
    /\ Truthy(messageAttributes)
    /\ Len(ObjectKeys(messageAttributes)) >= MAX_MESSAGE_ATTRIBUTES

\* The guard of the second throw.
TooManyAttributes(messageAttributes) ==
    /\ Truthy(messageAttributes)
    /\ Len(ObjectKeys(messageAttributes)) > MAX_MESSAGE_ATTRIBUTES

\* The routing after the two checks.
Dispatch(c, message, messageAttributes) ==
    IF Truthy(lifter.alwaysS3) THEN sendThroughS3(c, message)
    ELSE LET total == getTotalMessageSize(message, messageAttributes)
         IN  IF total = TypeErrorThrown
             THEN Throw(c, "TypeError: Cannot convert undefined or null to object")
             ELSE IF JsGt(total, lifter.maxMessageSize)
             THEN sendThroughS3(c, message)
             ELSE sendDirect(c, message, messageAttributes)

sendMessage(c, message, messageAttributes) ==
    /\ lifter.constructed
    /\ pc[c] = "idle"
    /\ argMessage' = [argMessage EXCEPT ![c] = message]
    /\ argAttrs' = [argAttrs EXCEPT ![c] = messageAttributes]
    /\ IF MessageMissing(message)
       THEN Throw(c, "Error: message is required")
       ELSE IF TooManyAttributes(messageAttributes)
       THEN Throw(c, "Error: messageAttributes may contain up to 10 attributes")
       ELSE Dispatch(c, message, messageAttributes)
    /\ UNCHANGED <<ctorOptions, lifter, sizeArgs, sizeOut>>

\* The S3 collaborator stores the object and the putObject promise resolves.
S3PutSucceed(c) ==
    /\ pc[c] = "awaitS3"
    /\ s3Store' = s3Store \cup {s3Requests[c][Len(s3Requests[c])]}
    /\ s3Status' = [s3Status EXCEPT ![c] = "ok"]
    /\ pc' = [pc EXCEPT ![c] = "s3Resolved"]
    /\ UNCHANGED <<ctorOptions, lifter, argMessage, argAttrs, route, objectKey,
                   s3Requests, sqsRequests, sqsStatus, result, uuidCount,
                   sizeArgs, sizeOut>>

\* The key of the latest draw (a key kept on the instance, not in the call)
\* in place of the call's own.
SqsMessage_LatestKey(key) ==
    Obj(<<Prop(K_s3BucketName, lifter.bucketName), Prop(K_s3Key, Uuid(uuidCount))>>)

\* The message sent in place of the body.
SqsMessage(key) ==
    Obj(<<Prop(K_s3BucketName, lifter.bucketName), Prop(K_s3Key, key)>>)

\* The then callback of _sendThroughS3.
S3Then(c) ==
    /\ pc[c] = "s3Resolved"
    /\ sendToSQS(c, SqsMessage(objectKey[c]), argAttrs[c])
    /\ UNCHANGED <<ctorOptions, lifter, argMessage, argAttrs, route, objectKey,
                   s3Requests, s3Status, result, s3Store, uuidCount,
                   sizeArgs, sizeOut>>

\* The callback registered for both outcomes (then(cb, cb)): the message is
\* sent after a failed putObject too.
S3PutFail_StillSends(c) ==
    /\ pc[c] = "awaitS3"
    /\ s3Status' = [s3Status EXCEPT ![c] = "failed"]
    /\ sendToSQS(c, SqsMessage(objectKey[c]), argAttrs[c])
    /\ UNCHANGED <<ctorOptions, lifter, argMessage, argAttrs, route, objectKey,
                   s3Requests, result, s3Store, uuidCount, sizeArgs, sizeOut>>

\* The putObject promise rejects: the then callback is skipped and the promise
\* sendMessage returned rejects with the same error.
S3PutFail(c) ==
    /\ pc[c] = "awaitS3"
    /\ s3Status' = [s3Status EXCEPT ![c] = "failed"]
    /\ pc' = [pc EXCEPT ![c] = "rejected"]
    /\ result' = [result EXCEPT ![c] = "S3Error"]
    /\ UNCHANGED <<ctorOptions, lifter, argMessage, argAttrs, route, objectKey,
                   s3Requests, sqsRequests, sqsStatus, s3Store, uuidCount,
                   sizeArgs, sizeOut>>

\* The SQS request succeeds: the call's promise resolves with its result.
SqsSucceed(c) ==
    /\ pc[c] = "awaitSQS"
    /\ sqsStatus' = [sqsStatus EXCEPT ![c] = "ok"]
    /\ pc' = [pc EXCEPT ![c] = "resolved"]
    /\ result' = [result EXCEPT ![c] = "SqsResult"]
    /\ UNCHANGED <<ctorOptions, lifter, argMessage, argAttrs, route, objectKey,
                   s3Requests, s3Status, sqsRequests, s3Store, uuidCount,
                   sizeArgs, sizeOut>>

\* A failed SQS request made again.
SqsFail_Retries(c) ==
    /\ pc[c] = "awaitSQS"
    /\ sqsRequests' = [sqsRequests EXCEPT ![c] = Append(@, @[Len(@)])]
    /\ UNCHANGED <<ctorOptions, lifter, pc, argMessage, argAttrs, route,
                   objectKey, s3Requests, s3Status, sqsStatus, result, s3Store,
                   uuidCount, sizeArgs, sizeOut>>

\* A failed SQS request caught (catch(() => undefined)): the call resolves.
SqsFail_Swallowed(c) ==
    /\ pc[c] = "awaitSQS"
    /\ sqsStatus' = [sqsStatus EXCEPT ![c] = "failed"]
    /\ pc' = [pc EXCEPT ![c] = "resolved"]
    /\ result' = [result EXCEPT ![c] = "undefined"]
    /\ UNCHANGED <<ctorOptions, lifter, argMessage, argAttrs, route, objectKey,
                   s3Requests, s3Status, sqsRequests, s3Store, uuidCount,
                   sizeArgs, sizeOut>>

\* The SQS request fails: the call's promise rejects with its error.
SqsFail(c) ==
    /\ pc[c] = "awaitSQS"
    /\ sqsStatus' = [sqsStatus EXCEPT ![c] = "failed"]
    /\ pc' = [pc EXCEPT ![c] = "rejected"]
    /\ result' = [result EXCEPT ![c] = "SqsError"]
    /\ UNCHANGED <<ctorOptions, lifter, argMessage, argAttrs, route, objectKey,
                   s3Requests, s3Status, sqsRequests, s3Store, uuidCount,
                   sizeArgs, sizeOut>>

NoSizeArgs == [message |-> Undefined, messageAttributes |-> Undefined]

NotEvaluated == [done |-> FALSE, value |-> Undefined]

Init ==
    /\ ctorOptions = NoOptions
    /\ lifter = NotConstructed
    /\ pc = [c \in Calls |-> "idle"]
    /\ argMessage = [c \in Calls |-> Undefined]
    /\ argAttrs = [c \in Calls |-> Undefined]
    /\ route = [c \in Calls |-> "none"]
    /\ objectKey = [c \in Calls |-> Undefined]
    /\ s3Requests = [c \in Calls |-> <<>>]
    /\ s3Status = [c \in Calls |-> "none"]
    /\ sqsRequests = [c \in Calls |-> <<>>]
    /\ sqsStatus = [c \in Calls |-> "none"]
    /\ result = [c \in Calls |-> "none"]
    /\ s3Store = {}
    /\ uuidCount = 0
    /\ sizeArgs = NoSizeArgs
    /\ sizeOut = NotEvaluated

\* Calls are numbered in the order they are made.
InOrder(c) == \A d \in Calls : d < c => pc[d] # "idle"

\* Concurrent callers of one instance; every request in flight may settle at
\* any time.
Next ==
    \/ \E options \in OptionSets : Construct(options)
    \/ \E c \in Calls, message \in ConcurrentMessages,
          messageAttributes \in ConcurrentAttributeSets :
          InOrder(c) /\ sendMessage(c, message, messageAttributes)
    \/ \E c \in Calls : S3PutSucceed(c)
    \/ \E c \in Calls : S3Then(c)
    \/ \E c \in Calls : S3PutFail(c)
    \/ \E c \in Calls : SqsSucceed(c)
    \/ \E c \in Calls : SqsFail(c)

Spec == Init /\ [][Next]_vars

\* One call of an instance, over the full sets of arguments.
NextCall ==
    \/ \E options \in OptionSets : Construct(options)
    \/ \E message \in Messages, messageAttributes \in AttributeSets :
          sendMessage(1, message, messageAttributes)
    \/ S3PutSucceed(1)
    \/ S3Then(1)
    \/ S3PutFail(1)
    \/ SqsSucceed(1)
    \/ SqsFail(1)

SpecCall == Init /\ [][NextCall]_vars

(***************************************************************************)
(* A lone evaluation of getTotalMessageSize on one pair of arguments.      *)
(***************************************************************************)
InitSize ==
    /\ ctorOptions = NoOptions
    /\ lifter = NotConstructed
    /\ pc = [c \in Calls |-> "idle"]
    /\ argMessage = [c \in Calls |-> Undefined]
    /\ argAttrs = [c \in Calls |-> Undefined]
    /\ route = [c \in Calls |-> "none"]
    /\ objectKey = [c \in Calls |-> Undefined]
    /\ s3Requests = [c \in Calls |-> <<>>]
    /\ s3Status = [c \in Calls |-> "none"]
    /\ sqsRequests = [c \in Calls |-> <<>>]
    /\ sqsStatus = [c \in Calls |-> "none"]
    /\ result = [c \in Calls |-> "none"]
    /\ s3Store = {}
    /\ uuidCount = 0
    /\ sizeArgs \in [message : SizeBodies, messageAttributes : SizeAttributeSets]
    /\ sizeOut = NotEvaluated

EvalTotalSize ==
    /\ ~sizeOut.done
    /\ sizeOut' = [done |-> TRUE,
                   value |-> getTotalMessageSize(sizeArgs.message,
                                                 sizeArgs.messageAttributes)]
    /\ UNCHANGED <<ctorOptions, lifter, pc, argMessage, argAttrs, route,
                   objectKey, s3Requests, s3Status, sqsRequests, sqsStatus,
                   result, s3Store, uuidCount, sizeArgs>>

NextSize == EvalTotalSize

SpecSize == InitSize /\ [][NextSize]_vars

(***************************************************************************)
(* What the properties below are stated with.                              *)
(***************************************************************************)
\* sendMessage was called for c.
Started(c) == pc[c] # "idle"

\* The number of entries of an attributes argument; none when it is absent.
AttrCount(attrs) == IF attrs.t = "object" THEN Len(attrs.f) ELSE 0

\* The byte length of a text value; zero when absent or null.
RefStringSize(v) == IF v.t = "string" THEN SumUtf8(v.s) ELSE 0

\* The byte length of a binary value: the byte count of a buffer or typed
\* array, the encoded length of a string, the declared size of a blob, and
\* zero when absent or null.
RefBinarySize(v) ==
    CASE v.t = "Buffer" -> v.n
      [] v.t = "Uint16Array" -> 2 * v.n
      [] v.t = "Blob" -> v.n
      [] v.t = "string" -> SumUtf8(v.s)
      [] OTHER -> 0

RECURSIVE RefEntriesSize(_)
RefEntriesSize(f) ==
    IF f = <<>> THEN 0
    ELSE SumUtf8(Head(f).k)
         + RefStringSize(Get(Head(f).val, K_DataType))
         + RefStringSize(Get(Head(f).val, K_StringValue))
         + RefBinarySize(Get(Head(f).val, K_BinaryValue))
         + RefEntriesSize(Tail(f))

\* The size of the body as serialized.
RefBodySize(message) == SumUtf8(JsonText(message))

\* The total size of a message: its body and every attribute entry.
RefTotalSize(message, attrs) ==
    RefBodySize(message) + (IF attrs.t = "object" THEN RefEntriesSize(attrs.f) ELSE 0)

\* The text of the record { s3BucketName: bucket, s3Key: key }.
PointerText(bucket, key) ==
    <<123, 34>> \o K_s3BucketName \o <<34, 58, 34>> \o bucket.s \o <<34, 44, 34>>
    \o K_s3Key \o <<34, 58, 34>> \o key.s \o <<34, 125>>

ErrMessageRequired == "Error: message is required"

ErrTooManyAttributes == "Error: messageAttributes may contain up to 10 attributes"

(***************************************************************************)
(* C1: on the offload path a call's SQS request is made only in a step     *)
(* taken when that call's putObject has already succeeded, whatever the    *)
(* other calls do meanwhile; a call whose putObject failed has made no SQS *)
(* request and has failed.                                                 *)
(***************************************************************************)
C1_SendOnlyAfterPutSucceeded ==
    /\ [][\A c \in Calls :
            (route'[c] = "s3" /\ Len(sqsRequests'[c]) > Len(sqsRequests[c]))
                => s3Status[c] = "ok"]_vars
    /\ [](\A c \in Calls :
            /\ (route[c] = "s3" /\ sqsRequests[c] # <<>>) => s3Status[c] = "ok"
            /\ s3Status[c] = "failed" =>
                  (sqsRequests[c] = <<>> /\ pc[c] = "rejected" /\ result[c] = "S3Error"))

\* One call's putObject has failed and the call is rejected while another
\* call, started before it settled, has sent its message after its own put.
C1_Witness ==
    \E c, d \in Calls :
        /\ c # d
        /\ s3Status[c] = "failed" /\ pc[c] = "rejected"
        /\ route[d] = "s3" /\ s3Status[d] = "ok" /\ Len(sqsRequests[d]) = 1

(***************************************************************************)
(* C2: a call with a body and at most 10 attributes (or none) goes through *)
(* S3 exactly when alwaysS3 is set or the total size is greater than       *)
(* maxMessageSize, and straight to SQS otherwise.                          *)
(***************************************************************************)
C2_RoutedBySize ==
    \A c \in Calls :
        (Started(c) /\ Truthy(argMessage[c])
            /\ AttrCount(argAttrs[c]) <= MAX_MESSAGE_ATTRIBUTES)
        => route[c] =
              IF \/ Truthy(lifter.alwaysS3)
                 \/ RefTotalSize(argMessage[c], argAttrs[c]) > lifter.maxMessageSize.n
              THEN "s3" ELSE "direct"

(***************************************************************************)
(* C3: once the putObject of an offload call of an instance with a bucket  *)
(* has succeeded, the call has made exactly one putObject, of the          *)
(* serialized body under the bucket and a key no other call uses, and the  *)
(* one SQS request it makes next carries the text of the record            *)
(* {s3BucketName, s3Key} with that bucket and that key, and the caller's   *)
(* attributes; the body's text is never what it sends to SQS.              *)
(***************************************************************************)
C3_PointerAfterPut ==
    \A c \in Calls :
        (route[c] = "s3" /\ s3Status[c] = "ok" /\ Truthy(lifter.bucketName))
        => /\ s3Requests[c] =
                <<[Op |-> "putObject", Bucket |-> lifter.bucketName,
                   Key |-> objectKey[c], Body |-> Str(JsonText(argMessage[c]))]>>
           /\ s3Requests[c][1] \in s3Store
           /\ \A d \in Calls \ {c} : objectKey[d] # objectKey[c]
           /\ pc[c] # "s3Resolved" =>
                sqsRequests[c] =
                   <<[QueueUrl |-> lifter.queueUrl,
                      MessageBody |->
                         Str(PointerText(lifter.bucketName, objectKey[c])),
                      MessageAttributes |-> argAttrs[c]]>>
           /\ \A i \in 1..Len(sqsRequests[c]) :
                sqsRequests[c][i].MessageBody # Str(JsonText(argMessage[c]))

\* Two offload calls were in flight together and both have sent their pointer.
C3_Witness ==
    \E c, d \in Calls :
        /\ c < d
        /\ Truthy(lifter.bucketName)
        /\ route[c] = "s3" /\ route[d] = "s3"
        /\ s3Status[c] = "ok" /\ s3Status[d] = "ok"
        /\ Len(sqsRequests[c]) = 1 /\ Len(sqsRequests[d]) = 1
        /\ argAttrs[d] # Undefined /\ AttrCount(argAttrs[d]) > 0

(***************************************************************************)
(* C4: a call with a body, no attributes argument, alwaysS3 unset and a    *)
(* body no larger than maxMessageSize makes one SQS request with the       *)
(* serialized body, makes no S3 request, and resolves with the SQS result. *)
(***************************************************************************)
C4_NoAttributesSendsDirect ==
    \A c \in Calls :
        (Started(c) /\ Truthy(argMessage[c]) /\ argAttrs[c] = Undefined
            /\ ~Truthy(lifter.alwaysS3)
            /\ RefBodySize(argMessage[c]) <= lifter.maxMessageSize.n)
        => /\ route[c] = "direct"
           /\ s3Requests[c] = <<>>
           /\ Len(sqsRequests[c]) = 1
           /\ sqsRequests[c][1].MessageBody = Str(JsonText(argMessage[c]))
           /\ sqsStatus[c] = "ok" => (pc[c] = "resolved" /\ result[c] = "SqsResult")

(***************************************************************************)
(* C5: for a body and an attributes object, getTotalMessageSize is the     *)
(* number of bytes of the serialized body plus, for every entry, the bytes *)
(* of its name, data type, text value and binary value; it is a number     *)
(* that is not negative.                                                   *)
(***************************************************************************)
C5_TotalIsSumOfParts ==
    (sizeOut.done /\ sizeArgs.messageAttributes.t = "object")
    => /\ sizeOut.value.t = "number"
       /\ sizeOut.value.n >= 0
       /\ sizeOut.value.n =
             RefTotalSize(sizeArgs.message, sizeArgs.messageAttributes)

(***************************************************************************)
(* C6: a call with a body and more than 10 attributes throws the           *)
(* attributes error and makes no S3 and no SQS request, whatever the size  *)
(* and whatever alwaysS3 is; a call with exactly 10 does not throw it.     *)
(***************************************************************************)
C6_AttributeLimit ==
    \A c \in Calls :
        (Started(c) /\ Truthy(argMessage[c]))
        => /\ AttrCount(argAttrs[c]) > MAX_MESSAGE_ATTRIBUTES =>
                /\ pc[c] = "thrown"
                /\ result[c] = ErrTooManyAttributes
                /\ s3Requests[c] = <<>> /\ sqsRequests[c] = <<>>
                /\ s3Status[c] = "none" /\ sqsStatus[c] = "none"
           /\ AttrCount(argAttrs[c]) = MAX_MESSAGE_ATTRIBUTES =>
                /\ result[c] # ErrTooManyAttributes
                /\ pc[c] # "thrown"

\* A call with 11 attributes on an instance that always offloads has thrown.
C6_Witness ==
    \E c \in Calls :
        /\ Started(c) /\ Truthy(argMessage[c])
        /\ AttrCount(argAttrs[c]) = MAX_MESSAGE_ATTRIBUTES + 1
        /\ Truthy(lifter.alwaysS3)
        /\ pc[c] = "thrown"

(***************************************************************************)
(* C7: a call whose body is undefined, null or another falsy value throws  *)
(* the message error and makes no S3 and no SQS request, whatever the      *)
(* attributes and whatever alwaysS3 is.                                    *)
(***************************************************************************)
C7_MissingBody ==
    \A c \in Calls :
        (Started(c) /\ ~Truthy(argMessage[c]))
        => /\ pc[c] = "thrown"
           /\ result[c] = ErrMessageRequired
           /\ s3Requests[c] = <<>> /\ sqsRequests[c] = <<>>
           /\ s3Status[c] = "none" /\ sqsStatus[c] = "none"

\* A call with the body 0 and 11 attributes on an instance that always
\* offloads has thrown.
C7_Witness ==
    \E c \in Calls :
        /\ pc[c] = "thrown"
        /\ argMessage[c] = Num(0)
        /\ AttrCount(argAttrs[c]) = MAX_MESSAGE_ATTRIBUTES + 1
        /\ Truthy(lifter.alwaysS3)

(***************************************************************************)
(* C8: the constructor, given a maxMessageSize that is not a positive      *)
(* number, throws and gives no instance; given none, the instance's        *)
(* maxMessageSize is 262144; given a positive number, it is that number.   *)
(***************************************************************************)
C8_MaxMessageSizeChecked ==
    LET given == ctorOptions.maxMessageSize
        positive == given.t = "number" /\ given.n > 0
    IN  (lifter # NotConstructed)
        => /\ (given # Undefined /\ ~positive) =>
                (~lifter.constructed /\ lifter.error # "")
           /\ (lifter.constructed /\ given = Undefined) =>
                lifter.maxMessageSize = Num(MAX_MESSAGE_SIZE)
           /\ (lifter.constructed /\ positive) => lifter.maxMessageSize = given

(***************************************************************************)
(* C9: a call makes at most one SQS request and at most one S3 request,    *)
(* however the requests end, and a call sent straight to SQS makes no S3   *)
(* request.                                                                *)
(***************************************************************************)
C9_NoRetry ==
    \A c \in Calls :
        /\ Len(sqsRequests[c]) <= 1
        /\ Len(s3Requests[c]) <= 1
        /\ route[c] = "direct" => (s3Requests[c] = <<>> /\ s3Status[c] = "none")

\* An offload call whose SQS request failed and a direct call whose SQS
\* request failed.
C9_Witness ==
    \E c, d \in Calls :
        /\ route[c] = "s3" /\ sqsStatus[c] = "failed"
        /\ route[d] = "direct" /\ sqsStatus[d] = "failed"

(***************************************************************************)
(* C10: a call whose SQS request failed is rejected with the SQS error; on *)
(* the offload path the object it put is still stored and the put is the   *)
(* only S3 request the call has made.                                      *)
(***************************************************************************)
C10_SendFailureSurfaces ==
    \A c \in Calls :
        sqsStatus[c] = "failed"
        => /\ pc[c] = "rejected"
           /\ result[c] = "SqsError"
           /\ Len(sqsRequests[c]) = 1
           /\ route[c] = "direct" => s3Requests[c] = <<>>
           /\ route[c] = "s3" =>
                /\ Len(s3Requests[c]) = 1
                /\ s3Requests[c][1].Op = "putObject"
                /\ s3Requests[c][1] \in s3Store

\* An offload call whose SQS request failed after its put, while another
\* offload call is still waiting for its own put.
C10_Witness ==
    \E c, d \in Calls :
        /\ route[c] = "s3" /\ s3Status[c] = "ok" /\ sqsStatus[c] = "failed"
        /\ pc[c] = "rejected"
        /\ route[d] = "s3" /\ pc[d] = "awaitS3"

====
